---- MODULE Spec2Model ----
(***************************************************************************)
(* The News Automation admin dashboard (streamlit_app/main.py) as a state  *)
(* machine: the items table of the remote store, the configured secrets,   *)
(* and, per operator session, the Streamlit session state and the position *)
(* of the script run that handles the session's last click.  Every store   *)
(* call and the blocking HTTP call to the workflow engine is one atomic    *)
(* step; steps of different sessions interleave freely.                    *)
(***************************************************************************)
EXTENDS Integers, Sequences, FiniteSets, TLC

VARIABLES
    secrets,        \* st.secrets: APP_PASSWORD and whether [dify] is configured
    session_state,  \* per session: st.session_state["password_correct"]
    items,          \* the items table: id -> row
    nextId,         \* the next fresh row id of the items table
    local,          \* per session: the running script's position and locals
    triggered,      \* history: POSTs sent for an item since its creation / last Retry
                    \* ("never", "once", or "again" for two or more)
    matched,        \* history: a password equal to APP_PASSWORD was submitted
    lastOp          \* history: the last step taken, with the item it was about
                    \* for a Retry, a returned trigger and a fetched entry

vars == <<secrets, session_state, items, nextId, local, triggered, matched, lastOp>>

----------------------------------------------------------------------------
(* Bounds of the model *)

MaxItems == 2
MaxRetryCount == 2

(* Constants of the program *)

FetchLimit == 10

Sessions == {"s1", "s2"}
ItemIds == 1..MaxItems
SourceIds == {"src1"}
Links == {"a", "b"}
QueueLinks == {"a"}
Missing == "<missing>"
Passwords == {"secret", "wrong"}
NULL == "null"

status_opts == {"PENDING", "PROCESSING", "PUBLISHED", "FAILED", "ERROR"}

(* The statuses whose text contains 'FAILED': plain FAILED and the extended *)
(* fail statuses the queue filter and the dashboard count match by         *)
(* substring.  FAILED_EXTENDED stands for any of the extended ones.        *)
ContainsFailed(status) == status \in {"FAILED", "FAILED_EXTENDED"}

(* What the workflow engine leaves in an item's status when a run ends.    *)
WorkflowStatuses == {"PUBLISHED", "ERROR", "FAILED", "FAILED_EXTENDED"}

(* hashlib.sha256(url.encode('utf-8')).hexdigest(): distinct links have    *)
(* distinct digests, and a digest is not the link.                         *)
Sha256(url) == "sha256(" \o url \o ")"

(* The feeds feedparser.parse may return for the source's rss_url, as the  *)
(* sequence of entry links.                                                *)
LongFeed == <<"a", "a", "a", "a", "a", "a", "a", "a", "a", "a", "b">>
QueueFeeds == {<< >>, <<"a">>}
SourceFeeds == {<< >>, <<"a", "a">>, LongFeed}

----------------------------------------------------------------------------
(* Authentication *)

password_entered(typed, password) ==
    IF typed = password THEN "true" ELSE "false"

CheckPasswordUnlessWrong(s) ==
    /\ secrets.APP_PASSWORD # Missing
    /\ session_state[s] # "false"

check_password(s) ==
    /\ secrets.APP_PASSWORD # Missing
    /\ session_state[s] # "absent"
    /\ session_state[s] = "true"

----------------------------------------------------------------------------
(* CRUD: items *)

RetryItemCounting(T, item_id) ==
    IF item_id \in DOMAIN T
    THEN [T EXCEPT ![item_id] = [@ EXCEPT !.status = "PENDING",
                                          !.error_message = NULL,
                                          !.retry_count = @ + 1]]
    ELSE T

RetryItemKeepingError(T, item_id) ==
    IF item_id \in DOMAIN T
    THEN [T EXCEPT ![item_id] = [@ EXCEPT !.status = "PENDING",
                                          !.retry_count = 0]]
    ELSE T

RetryItemRequeued(T, item_id) ==
    IF item_id \in DOMAIN T
    THEN [T EXCEPT ![item_id] = [@ EXCEPT !.status = "REQUEUED",
                                          !.error_message = NULL,
                                          !.retry_count = 0]]
    ELSE T

retry_item(T, item_id) ==
    IF item_id \in DOMAIN T
    THEN [T EXCEPT ![item_id] = [@ EXCEPT !.status = "PENDING",
                                          !.error_message = NULL,
                                          !.retry_count = 0]]
    ELSE T

delete_item(T, item_id) == [j \in DOMAIN T \ {item_id} |-> T[j]]

add_item(T, id, source_id, url) ==
    T @@ (id :> [source_id      |-> source_id,
                 original_url   |-> url,
                 url_hash       |-> Sha256(url),
                 status         |-> "PENDING",
                 title_original |-> "Manual Add",
                 error_message  |-> NULL,
                 retry_count    |-> 0])

(* res.count of select("id", count="exact").eq("url_hash", h) *)
count_url_hash(T, h) == Cardinality({j \in DOMAIN T : T[j].url_hash = h})

----------------------------------------------------------------------------
(* Dify integration *)

TriggerAnyResponse(dify, resp) == dify /\ resp # "exception"

(* trigger_dify_workflow's return value, given whether [dify] is           *)
(* configured and how the POST ended.                                      *)
trigger_dify_workflow(dify, resp) == dify /\ resp = "200"

RunWorkflowRequeueOnFailure(T, sel_id, ok) ==
    IF sel_id \in DOMAIN T
    THEN [T EXCEPT ![sel_id].status = IF ok THEN "PROCESSING" ELSE "PENDING"]
    ELSE T

(* What the Run Workflow handler writes once the trigger has returned.     *)
run_workflow_update(T, sel_id, ok) ==
    IF ok /\ sel_id \in DOMAIN T
    THEN [T EXCEPT ![sel_id].status = "PROCESSING"]
    ELSE T

(* The write of a workflow run that ends for item_id with `status`.        *)
workflow_write(T, item_id, status) ==
    IF item_id \notin DOMAIN T THEN T
    ELSE IF status = "PUBLISHED"
    THEN [T EXCEPT ![item_id].status = status]
    ELSE [T EXCEPT ![item_id] = [@ EXCEPT !.status = status,
                                          !.error_message = "error",
                                          !.retry_count = @ + 1]]

----------------------------------------------------------------------------
(* RSS fetch *)

Min(a, b) == IF a <= b THEN a ELSE b

(* feed.entries[:10] *)
Latest(feed) == SubSeq(feed, 1, Min(Len(feed), FetchLimit))

IsNewOrSingle(count) == count <= 1

(* res.count == 0 *)
IsNew(count) == count = 0

----------------------------------------------------------------------------
(* Script runs *)

Idle == [pc |-> "idle", sel_id |-> 0, resp |-> "none", source_id |-> "",
         feed |-> << >>, idx |-> 0, count_new |-> 0, res_count |-> 0,
         added |-> << >>]

Op(name, s, i) == [op |-> name, session |-> s, item |-> i,
                   before |-> << >>, again |-> FALSE]

Ready(s) == check_password(s) /\ local[s].pc = "idle"

Init ==
    /\ secrets \in [APP_PASSWORD : {Missing, "secret"}, dify : BOOLEAN]
    /\ session_state = [s \in Sessions |-> "absent"]
    /\ items = << >>
    /\ nextId = 1
    /\ local = [s \in Sessions |-> Idle]
    /\ triggered = [i \in ItemIds |-> "never"]
    /\ matched = [s \in Sessions |-> FALSE]
    /\ lastOp = Op("init", "", 0)

(* The password widget's on_change callback. *)
PasswordEntered(s, typed) ==
    /\ secrets.APP_PASSWORD # Missing
    /\ ~check_password(s)
    /\ local[s].pc = "idle"
    /\ session_state' = [session_state EXCEPT
                            ![s] = password_entered(typed, secrets.APP_PASSWORD)]
    /\ matched' = [matched EXCEPT ![s] = @ \/ typed = secrets.APP_PASSWORD]
    /\ lastOp' = Op("password_entered", s, 0)
    /\ UNCHANGED <<secrets, items, nextId, local, triggered>>

(* The Retry Item button. *)
RetryItem(s, i) ==
    /\ Ready(s)
    /\ i \in DOMAIN items
    /\ items' = retry_item(items, i)
    /\ triggered' = [triggered EXCEPT ![i] = "never"]
    /\ lastOp' = [Op("retry_item", s, i) EXCEPT
                     !.before = <<items[i].status, items[i].error_message,
                                  items[i].retry_count>>,
                     !.again = (lastOp.op = "retry_item" /\ lastOp.item = i)]
    /\ UNCHANGED <<secrets, session_state, nextId, local, matched>>

(* The Delete Item button. *)
DeleteItem(s, i) ==
    /\ Ready(s)
    /\ i \in DOMAIN items
    /\ items' = delete_item(items, i)
    /\ triggered' = [triggered EXCEPT ![i] = "never"]
    /\ lastOp' = Op("delete_item", s, 0)
    /\ UNCHANGED <<secrets, session_state, nextId, local, matched>>

(* The Inject to Queue form. *)
AddManually(s, source_id, url_in) ==
    /\ Ready(s)
    /\ IF url_in # ""
       THEN /\ nextId <= MaxItems
            /\ items' = add_item(items, nextId, source_id, url_in)
            /\ nextId' = nextId + 1
            /\ lastOp' = Op("add_item", s, 0)
       ELSE /\ lastOp' = Op("url_required", s, 0)
            /\ UNCHANGED <<items, nextId>>
    /\ UNCHANGED <<secrets, session_state, local, triggered, matched>>

(* The Fetch Articles from RSS button: the feed is parsed and the loop     *)
(* over its latest entries starts.                                         *)
FetchArticles(s, source_id, feed) ==
    /\ Ready(s)
    /\ IF Len(feed) > 0
       THEN local' = [local EXCEPT ![s] = [Idle EXCEPT !.pc = "fetch_loop",
                                                       !.source_id = source_id,
                                                       !.feed = feed,
                                                       !.idx = 1]]
       ELSE UNCHANGED local
    /\ lastOp' = Op(IF Len(feed) > 0 THEN "fetch_articles" ELSE "fetch_empty", s, 0)
    /\ UNCHANGED <<secrets, session_state, items, nextId, triggered, matched>>

(* The duplicate check of the entry at idx. *)
FetchCheck(s) ==
    /\ local[s].pc = "fetch_loop"
    /\ local[s].idx <= Len(Latest(local[s].feed))
    /\ local' = [local EXCEPT ![s].pc = "fetch_checked",
                              ![s].res_count =
                                  count_url_hash(items, Sha256(local[s].feed[local[s].idx]))]
    /\ lastOp' = Op("fetch_check", s, 0)
    /\ UNCHANGED <<secrets, session_state, items, nextId, triggered, matched>>

(* The entry was found new: it is added to the queue. *)
FetchAdd(s) ==
    /\ local[s].pc = "fetch_checked"
    /\ IsNew(local[s].res_count)
    /\ nextId <= MaxItems
    /\ items' = add_item(items, nextId, local[s].source_id, local[s].feed[local[s].idx])
    /\ nextId' = nextId + 1
    /\ local' = [local EXCEPT ![s].pc = "fetch_loop",
                              ![s].idx = @ + 1,
                              ![s].count_new = @ + 1,
                              ![s].added = Append(@, local[s].feed[local[s].idx])]
    /\ lastOp' = Op("fetch_add", s, nextId)
    /\ UNCHANGED <<secrets, session_state, triggered, matched>>

(* The entry's hash is in the store: it is skipped. *)
FetchSkip(s) ==
    /\ local[s].pc = "fetch_checked"
    /\ ~IsNew(local[s].res_count)
    /\ local' = [local EXCEPT ![s].pc = "fetch_loop", ![s].idx = @ + 1]
    /\ lastOp' = Op("fetch_skip", s, 0)
    /\ UNCHANGED <<secrets, session_state, items, nextId, triggered, matched>>

(* The loop is over: the result is reported and the script run ends. *)
FetchDone(s) ==
    /\ local[s].pc = "fetch_loop"
    /\ local[s].idx > Len(Latest(local[s].feed))
    /\ local' = [local EXCEPT ![s] = Idle]
    /\ lastOp' = Op("fetch_done", s, 0)
    /\ UNCHANGED <<secrets, session_state, items, nextId, triggered, matched>>

(* The Run Workflow button: the rerun reads the queue, and the button is   *)
(* there only for a row it reads as PENDING.                               *)
RunWorkflow(s, i) ==
    /\ Ready(s)
    /\ i \in DOMAIN items
    /\ items[i].status = "PENDING"
    /\ local' = [local EXCEPT ![s] = [Idle EXCEPT !.pc = "run_workflow", !.sel_id = i]]
    /\ lastOp' = Op("run_workflow", s, 0)
    /\ UNCHANGED <<secrets, session_state, items, nextId, triggered, matched>>

(* trigger_dify_workflow up to the POST: without [dify] configuration it   *)
(* returns False, else the blocking request is sent.                       *)
TriggerPost(s) ==
    /\ local[s].pc = "run_workflow"
    /\ IF secrets.dify
       THEN /\ local' = [local EXCEPT ![s].pc = "posting", ![s].resp = "sent"]
            /\ triggered' = [triggered EXCEPT ![local[s].sel_id] =
                                 IF @ = "never" THEN "once" ELSE "again"]
            /\ lastOp' = Op("trigger_post", s, 0)
       ELSE /\ local' = [local EXCEPT ![s] = Idle]
            /\ lastOp' = Op("trigger_failed", s, local[s].sel_id)
            /\ UNCHANGED triggered
    /\ UNCHANGED <<secrets, session_state, items, nextId, matched>>

(* The workflow engine runs the workflow to its end, writes the item's     *)
(* final status and answers the blocking request with 200.                 *)
WorkflowRun(s, status) ==
    /\ local[s].pc = "posting"
    /\ local[s].resp = "sent"
    /\ local[s].sel_id \in DOMAIN items =>
           (status = "PUBLISHED" \/ items[local[s].sel_id].retry_count < MaxRetryCount)
    /\ items' = workflow_write(items, local[s].sel_id, status)
    /\ local' = [local EXCEPT ![s].resp = "200"]
    /\ lastOp' = Op("workflow", s, 0)
    /\ UNCHANGED <<secrets, session_state, nextId, triggered, matched>>

(* The request fails: a non-200 answer, or an exception of requests.post.  *)
WorkflowError(s, resp) ==
    /\ local[s].pc = "posting"
    /\ local[s].resp = "sent"
    /\ local' = [local EXCEPT ![s].resp = resp]
    /\ lastOp' = Op("workflow_error", s, 0)
    /\ UNCHANGED <<secrets, session_state, items, nextId, triggered, matched>>

(* trigger_dify_workflow returns, and the handler writes PROCESSING if it  *)
(* returned True.                                                          *)
TriggerReturn(s) ==
    /\ local[s].pc = "posting"
    /\ local[s].resp # "sent"
    /\ LET ok == trigger_dify_workflow(secrets.dify, local[s].resp)
       IN  /\ items' = run_workflow_update(items, local[s].sel_id, ok)
           /\ lastOp' = Op(IF ok THEN "trigger_ok" ELSE "trigger_failed",
                           s, local[s].sel_id)
    /\ local' = [local EXCEPT ![s] = Idle]
    /\ UNCHANGED <<secrets, session_state, nextId, triggered, matched>>

----------------------------------------------------------------------------
(* Specifications *)

Auth == \E s \in Sessions : \E typed \in Passwords : PasswordEntered(s, typed)

Queue ==
    \/ \E s \in Sessions : \E i \in ItemIds : RetryItem(s, i)
    \/ \E s \in Sessions : \E i \in ItemIds : RunWorkflow(s, i)
    \/ \E s \in Sessions : TriggerPost(s)
    \/ \E s \in Sessions : \E status \in WorkflowStatuses : WorkflowRun(s, status)
    \/ \E s \in Sessions : \E resp \in {"500", "exception"} : WorkflowError(s, resp)
    \/ \E s \in Sessions : TriggerReturn(s)

Inject(urls) ==
    \/ \E s \in Sessions : \E i \in ItemIds : DeleteItem(s, i)
    \/ \E s \in Sessions : \E src \in SourceIds : \E url \in urls \cup {""} :
           AddManually(s, src, url)

Fetch(feeds) ==
    \/ \E s \in Sessions : \E src \in SourceIds : \E feed \in feeds :
           FetchArticles(s, src, feed)
    \/ \E s \in Sessions : FetchCheck(s)
    \/ \E s \in Sessions : FetchAdd(s)
    \/ \E s \in Sessions : FetchSkip(s)
    \/ \E s \in Sessions : FetchDone(s)

(* The whole dashboard. *)
Next == Auth \/ Queue \/ Inject(QueueLinks) \/ Fetch(QueueFeeds)

Spec == Init /\ [][Next]_vars

(* The operations that insert and delete items, with the longer feeds. *)
InitSources == Init /\ secrets.dify

NextSources == Auth \/ Inject(Links) \/ Fetch(SourceFeeds)

SpecSources == InitSources /\ [][NextSources]_vars

----------------------------------------------------------------------------
(* Properties *)

Row(i) == items[i]

(* C1: right after a Retry of an item that exists, the item has status     *)
(* PENDING, no error message and retry count 0, whatever they were.        *)
RetryResetsItem ==
    \A i \in DOMAIN items :
        (lastOp.op = "retry_item" /\ lastOp.item = i) =>
            /\ Row(i).status = "PENDING"
            /\ Row(i).error_message = NULL
            /\ Row(i).retry_count = 0

(* A Retry has just reset an item that was failed, with an error message   *)
(* and a retry count above 0.                                              *)
RetryResetsItemWitness ==
    /\ lastOp.op = "retry_item"
    /\ lastOp.item \in DOMAIN items
    /\ lastOp.before # << >>
    /\ ContainsFailed(lastOp.before[1])
    /\ lastOp.before[2] # NULL
    /\ lastOp.before[3] > 0
    /\ Row(lastOp.item).status = "PENDING"

RetryIdempotent ==
    [][(lastOp'.op = "retry_item" /\ lastOp'.again) => items' = items]_vars

(* Two Retries of the same existing item in a row have been applied. *)
RetryIdempotentWitness ==
    /\ lastOp.op = "retry_item"
    /\ lastOp.again
    /\ lastOp.item \in DOMAIN items
    /\ lastOp.before = <<"PENDING", NULL, 0>>

(* C4: an item's status goes from another value to PENDING only in a Retry *)
(* of that item, and a failed trigger changes no item, sends no request    *)
(* and ends the script run.                                                *)
NoAutomaticRetry ==
    [][/\ \A i \in DOMAIN items \cap DOMAIN items' :
              (items[i].status # "PENDING" /\ items'[i].status = "PENDING") =>
                  (lastOp'.op = "retry_item" /\ lastOp'.item = i)
       /\ lastOp'.op = "trigger_failed" =>
              /\ items' = items
              /\ triggered' = triggered
              /\ local'[lastOp'.session].pc = "idle"]_vars

(* A trigger has just failed for an item that is no longer PENDING, and it *)
(* was not requeued.                                                       *)
NoAutomaticRetryWitness ==
    /\ lastOp.op = "trigger_failed"
    /\ lastOp.item \in DOMAIN items
    /\ Row(lastOp.item).status # "PENDING"

(* C5: an item's status becomes PROCESSING only when a trigger for it      *)
(* returned True, which it does only with [dify] configured and a 200      *)
(* response; a trigger that returns False leaves every item as it was.     *)
ProcessingOnlyAfterSuccess ==
    [][/\ \A i \in DOMAIN items \cap DOMAIN items' :
              (items[i].status # "PROCESSING" /\ items'[i].status = "PROCESSING") =>
                  (lastOp'.op = "trigger_ok" /\ lastOp'.item = i)
       /\ lastOp'.op = "trigger_ok" =>
              (secrets.dify /\ local[lastOp'.session].resp = "200")
       /\ (\E s \in Sessions :
              /\ local[s].pc \in {"run_workflow", "posting"}
              /\ local'[s].pc = "idle"
              /\ ~(secrets.dify /\ local[s].resp = "200")) =>
              (lastOp'.op = "trigger_failed" /\ items' = items)]_vars

(* A trigger has just failed and the item is still PENDING. *)
ProcessingOnlyAfterSuccessWitness ==
    /\ lastOp.op = "trigger_failed"
    /\ lastOp.item \in DOMAIN items
    /\ Row(lastOp.item).status = "PENDING"
    /\ Row(lastOp.item).retry_count = 0

(* C6: check_password is true of a session exactly when APP_PASSWORD is    *)
(* configured and a password equal to it was submitted in the session, and *)
(* a session runs a handler or takes a step only then.                     *)
PasswordGate ==
    \A s \in Sessions :
        /\ check_password(s) <=> (secrets.APP_PASSWORD # Missing /\ matched[s])
        /\ local[s].pc # "idle" => matched[s]
        /\ (lastOp.session = s /\ lastOp.op # "password_entered") => matched[s]

(* One session has entered a wrong password and is held; another has       *)
(* entered the right one and added an item.                                *)
PasswordGateWitness ==
    \E s, t \in Sessions :
        /\ session_state[s] = "false"
        /\ ~matched[s]
        /\ lastOp.session = t
        /\ lastOp.op = "add_item"
        /\ matched[t]

FetchOf(s) == local[s]

InFetch(s) == FetchOf(s).pc \in {"fetch_loop", "fetch_checked"}

TriggeredOncePerPending ==
    \A i \in ItemIds : triggered[i] # "again"

(* C9: no two items in the store have the same url_hash. *)
NoDuplicateUrlHash ==
    \A i, j \in DOMAIN items : i # j => Row(i).url_hash # Row(j).url_hash

(* C10: a final status written by the workflow changes only by a Retry, a  *)
(* Delete or another write of the workflow.                                *)
FinalStatusKept ==
    [][\A i \in DOMAIN items :
          (/\ items[i].status \in WorkflowStatuses
           /\ (i \notin DOMAIN items' \/ items'[i].status # items[i].status)) =>
              lastOp'.op \in {"retry_item", "delete_item", "workflow"}]_vars

====
